---- MODULE Spec2Model ----
(***************************************************************************)
(* Model of exercise0/template: the unbalanced binary tree                 *)
(* (include/binary_tree.hpp) and the operation replay loop run_ops with    *)
(* its caller (query.cpp).                                                 *)
(*                                                                         *)
(* The tree lives in a heap of nodes: heap[n] is the node with address n,  *)
(* address 0 is nullptr, and `new node(value)` appends a node to the heap. *)
(* The input stream is a sequence of whitespace-separated tokens; a token  *)
(* is an int or NonInt (any token on which `in >> val` sets failbit).      *)
(***************************************************************************)
EXTENDS Integers, Sequences, FiniteSets, TLC

\* ------------------------------------------------------------------ bounds
\* longest input stream, in tokens
MaxLen == 4
\* largest non-negative token of an input stream
MaxTok == 1
\* longest input stream of a replay over the tree alone, in tokens
MaxReplayLen == 6
\* largest number of insert calls made directly on a tree
MaxInserts == 4
\* largest value inserted directly into a tree
MaxVal == 2
\* largest value of the option -t
MaxType == 6

\* main: `uint64_t limit = (uint32_t(1) << 31) - 1`
DefaultLimit == 2147483647
\* select_qs: the literal 10e6 of `limit < 10e6`
SmallLimit == 10000000

\* a token of the stream: an int literal, or text that is no int
IntTok(v) == [is_int |-> TRUE, v |-> v]
NonInt == [is_int |-> FALSE, v |-> 0]
NegTokens == {-1, -2}
Tokens == {IntTok(v) : v \in (0..MaxTok) \cup NegTokens} \cup {NonInt}
TreeVals == (-1)..MaxVal

\* the values a claim probes count with: every value inserted and some never
\* inserted on either side
ProbeVals == (-3)..(MaxVal + 2)

VARIABLES
    root,        \* binary_tree::root, a node address (0 = nullptr)
    heap,        \* the nodes allocated by `new node`, by address
    released,    \* released[n] = number of times node n was deleted
    alive,       \* the binary_tree object is constructed and not destroyed
    hist,        \* the arguments of the insert calls on the structure, in order
    qs_kind,     \* run_ops' query_structure template argument
    debug,       \* run_ops' debug template argument
    validate,    \* run_ops' validate template argument
    in_stream,   \* the tokens of the input stream `in`
    in_ws,       \* whitespace follows the last token of `in`
    pos,         \* index of the next token `in >> val` extracts
    insert,      \* run_ops' local `insert` (TRUE = INSERT mode)
    us,          \* run_ops' local reference std::unordered_set
    res,         \* run_ops' block-local `res` (<<>> outside its block)
    calls,       \* calls made by run_ops on qs and on us, counted
    out,         \* lines written to std::cout
    err,         \* lines written to std::cerr
    pc,          \* where the program is
    exit_code,   \* the process' exit status (-1 while running)
    type,        \* main's `type` (option -t, 0 when not given)
    limit,       \* main's `limit` (option -l)
    separate_queries,  \* main's `separate_queries` (option -s)
    in_open      \* main's std::ifstream `in` is open

vars == <<root, heap, released, alive, hist, qs_kind, debug, validate,
          in_stream, in_ws, pos, insert, us, res, calls, out, err, pc,
          exit_code, type, limit, separate_queries, in_open>>

tree_vars == <<root, heap, released, alive, hist>>
main_vars == <<type, limit, separate_queries>>
run_vars == <<qs_kind, debug, validate, in_stream, in_ws, pos, insert, us,
              res, calls, out, err, pc, exit_code, main_vars, in_open>>

\* ------------------------------------------------------------ binary_tree
\* node(dtype value) : val(value), left = nullptr, right = nullptr
node(value) == [val |-> value, left |-> 0, right |-> 0]

RECURSIVE node_insert_swapped(_, _, _)
\* node::insert with the comparison turned round: a greater value goes left
node_insert_swapped(h, n, value) ==
    IF h[n].val = value THEN h
    ELSE IF value < h[n].val
         THEN IF h[n].right = 0
              THEN [Append(h, node(value)) EXCEPT ![n].right = Len(h) + 1]
              ELSE node_insert_swapped(h, h[n].right, value)
         ELSE IF h[n].left = 0
              THEN [Append(h, node(value)) EXCEPT ![n].left = Len(h) + 1]
              ELSE node_insert_swapped(h, h[n].left, value)

RECURSIVE node_insert_dup(_, _, _)
\* node::insert without the `val == value` early return
node_insert_dup(h, n, value) ==
    IF value > h[n].val
    THEN IF h[n].right = 0
         THEN [Append(h, node(value)) EXCEPT ![n].right = Len(h) + 1]
         ELSE node_insert_dup(h, h[n].right, value)
    ELSE IF h[n].left = 0
         THEN [Append(h, node(value)) EXCEPT ![n].left = Len(h) + 1]
         ELSE node_insert_dup(h, h[n].left, value)

RECURSIVE node_insert_overwrite(_, _, _)
\* node::insert without the `left == nullptr` test: a present left child is
\* overwritten by the new node
node_insert_overwrite(h, n, value) ==
    IF h[n].val = value THEN h
    ELSE IF value > h[n].val
         THEN IF h[n].right = 0
              THEN [Append(h, node(value)) EXCEPT ![n].right = Len(h) + 1]
              ELSE node_insert_overwrite(h, h[n].right, value)
         ELSE [Append(h, node(value)) EXCEPT ![n].left = Len(h) + 1]

\* node::insert that puts the new node between the node and its present
\* child instead of descending
node_insert_splice(h, n, value) ==
    IF h[n].val = value THEN h
    ELSE IF value > h[n].val
         THEN [Append(h, [val |-> value, left |-> 0, right |-> h[n].right])
                  EXCEPT ![n].right = Len(h) + 1]
         ELSE [Append(h, [val |-> value, left |-> h[n].left, right |-> 0])
                  EXCEPT ![n].left = Len(h) + 1]

RECURSIVE node_insert(_, _, _)
\* node::insert on the node at address n; the heap after the call
node_insert(h, n, value) ==
    IF h[n].val = value THEN h
    ELSE IF value > h[n].val
         THEN IF h[n].right = 0
              THEN [Append(h, node(value)) EXCEPT ![n].right = Len(h) + 1]
              ELSE node_insert(h, h[n].right, value)
         ELSE IF h[n].left = 0
              THEN [Append(h, node(value)) EXCEPT ![n].left = Len(h) + 1]
              ELSE node_insert(h, h[n].left, value)

\* binary_tree::insert that rebalances: a root left with a chain of two right
\* children and no left child is rotated to the left
binary_tree_insert_rotating(r, h, value) ==
    IF r = 0
    THEN [root |-> Len(h) + 1, heap |-> Append(h, node(value))]
    ELSE LET h2 == node_insert(h, r, value)
             c == h2[r].right
         IN IF c # 0 /\ h2[r].left = 0 /\ h2[c].left = 0 /\ h2[c].right # 0
            THEN [root |-> c,
                  heap |-> [h2 EXCEPT ![r].right = 0, ![c].left = r]]
            ELSE [root |-> r, heap |-> h2]

\* binary_tree::insert; the tree (root and heap) after the call
binary_tree_insert(r, h, value) ==
    IF r = 0
    THEN [root |-> Len(h) + 1, heap |-> Append(h, node(value))]
    ELSE [root |-> r, heap |-> node_insert(h, r, value)]

RECURSIVE node_query_noleft(_, _, _)
\* node::query that gives up instead of descending left
node_query_noleft(h, n, value) ==
    IF value = h[n].val THEN TRUE
    ELSE IF value > h[n].val
         THEN IF h[n].right # 0 THEN node_query_noleft(h, h[n].right, value)
              ELSE FALSE
         ELSE FALSE

RECURSIVE node_query(_, _, _)
\* node::query on the node at address n
node_query(h, n, value) ==
    IF value = h[n].val THEN TRUE
    ELSE IF value > h[n].val
         THEN IF h[n].right # 0 THEN node_query(h, h[n].right, value) ELSE FALSE
         ELSE IF h[n].left # 0 THEN node_query(h, h[n].left, value) ELSE FALSE

BoolToInt(b) == IF b THEN 1 ELSE 0

\* binary_tree::count: the bool of query converted to the int return type
binary_tree_count(r, h, value) ==
    BoolToInt(IF r # 0 THEN node_query(h, r, value) ELSE FALSE)

RECURSIVE node_dtor_leak(_, _, _)
\* node::~node that deletes the left child only
node_dtor_leak(h, n, rel) ==
    LET l == IF h[n].left # 0 THEN node_dtor_leak(h, h[n].left, rel) ELSE rel
    IN [l EXCEPT ![n] = @ + 1]

RECURSIVE node_dtor(_, _, _)
\* node::~node on the node at address n, then the release of n itself
\* (`delete (n)`); rel counts the releases of every address
node_dtor(h, n, rel) ==
    LET l == IF h[n].left # 0 THEN node_dtor(h, h[n].left, rel) ELSE rel
        lr == IF h[n].right # 0 THEN node_dtor(h, h[n].right, l) ELSE l
    IN [lr EXCEPT ![n] = @ + 1]

\* binary_tree::~binary_tree
binary_tree_dtor(r, h, rel) ==
    IF r # 0 THEN node_dtor(h, r, rel) ELSE rel

NoCalls == [qs_insert |-> 0, qs_count |-> 0, us_insert |-> 0, us_count |-> 0]

\* ------------------------------------------- the tree driven through its API
TreeInit ==
    /\ root = 0 /\ heap = <<>> /\ released = <<>> /\ alive = TRUE
    /\ hist = <<>>
    /\ qs_kind = "binary_tree" /\ debug = FALSE /\ validate = FALSE
    /\ in_stream = <<>> /\ in_ws = FALSE /\ pos = 1 /\ insert = TRUE
    /\ us = {} /\ res = <<>> /\ calls = NoCalls
    /\ out = <<>> /\ err = <<>> /\ pc = "api" /\ exit_code = -1
    /\ type = 3 /\ limit = DefaultLimit /\ separate_queries = FALSE
    /\ in_open = FALSE

\* one call tree.insert(value)
TreeInsert ==
    /\ pc = "api" /\ alive /\ Len(hist) < MaxInserts
    /\ \E value \in TreeVals :
        LET t == binary_tree_insert(root, heap, value)
        IN /\ root' = t.root
           /\ heap' = t.heap
           /\ released' = [n \in 1..Len(t.heap) |-> 0]
           /\ hist' = Append(hist, value)
    /\ UNCHANGED <<alive, run_vars>>

\* the tree goes out of scope
TreeDestroy ==
    /\ pc = "api" /\ alive
    /\ released' = binary_tree_dtor(root, heap, released)
    /\ alive' = FALSE
    /\ UNCHANGED <<root, heap, hist, run_vars>>

TreeNext == TreeInsert \/ TreeDestroy

TreeSpec == TreeInit /\ [][TreeNext]_vars

\* ---------------------------------------------------------------- run_ops
\* the structures run_ops is instantiated with: the binary tree, and a stub
\* whose count may answer anything (a structure under test with a defect)
QsKinds == {"binary_tree", "stub"}

Streams == UNION {[1..n -> Tokens] : n \in 0..MaxLen}

\* `in >> val` that takes a failed extraction for the value 0 (no test of the
\* stream state after a token that is no int)
Extract_nocheck(s, ws, p) ==
    IF p > Len(s) THEN [good |-> FALSE, val |-> 0]
    ELSE IF ~s[p].is_int THEN [good |-> TRUE, val |-> 0]
    ELSE IF p = Len(s) /\ ~ws THEN [good |-> FALSE, val |-> s[p].v]
    ELSE [good |-> TRUE, val |-> s[p].v]

\* `in >> val` followed by `in.good()`, the stream standing before token p:
\*   no token left:            eofbit and failbit
\*   a token that is no int:   failbit
\*   an int that ends at the end of the stream (no whitespace after it):
\*                             the value is stored, and eofbit is set
\*   an int followed by whitespace or other text: the value is stored, good
Extract(s, ws, p) ==
    IF p > Len(s) THEN [good |-> FALSE, val |-> 0]
    ELSE IF ~s[p].is_int THEN [good |-> FALSE, val |-> 0]
    ELSE IF p = Len(s) /\ ~ws THEN [good |-> FALSE, val |-> s[p].v]
    ELSE [good |-> TRUE, val |-> s[p].v]

\* the extraction of the current iteration
Tok == Extract(in_stream, in_ws, pos)

OutLine(text, v) == [text |-> text, val |-> v]
ErrLine(text, v, b) == [text |-> text, val |-> v, should |-> b]

\* a stream insertion that puts the line before the lines written so far
WriteLine_front(o, line) == <<line>> \o o

\* `stream << ... << std::endl`
WriteLine(o, line) == Append(o, line)

\* std::unordered_set<int>::count
us_count(set, v) == IF v \in set THEN 1 ELSE 0

\* the values qs.count(v) can return
QsCount(v) ==
    IF qs_kind = "binary_tree" THEN {binary_tree_count(root, heap, v)}
    ELSE {0, 1}

\* a comparison that takes agreement for a mismatch
Mismatch_eq(r, n) == BoolToInt(r) = n

\* `res != us.count(val)`: the bool is promoted to the integer 0 or 1
Mismatch(r, n) == BoolToInt(r) # n

\* a report that prints res itself
ValidationReport_res(v, r) == ErrLine("Validation error", v, BoolToInt(r))

\* "Validation error: contains(" << val << ") should be " << !res
ValidationReport(v, r) == ErrLine("Validation error", v, BoolToInt(~r))

\* a toggle whose else branch is missing
Toggle_stuck(ins) == FALSE

\* `if (insert) insert = false; else insert = true;`
Toggle(ins) == IF ins THEN FALSE ELSE TRUE

\* main has opened the stream and select_qs has constructed the structure;
\* run_ops has constructed us, written the debug prompt and set insert
\* (std::cerr is followed from the entry of run_ops on)
Init ==
    /\ qs_kind \in QsKinds /\ debug \in BOOLEAN /\ validate \in BOOLEAN
    /\ in_stream \in Streams /\ in_ws \in BOOLEAN /\ pos = 1
    /\ us = {} /\ insert = TRUE /\ res = <<>> /\ calls = NoCalls
    /\ out = IF debug THEN <<OutLine("Enter values to add", 0)>> ELSE <<>>
    /\ err = <<>> /\ pc = "loop" /\ exit_code = -1
    /\ root = 0 /\ heap = <<>> /\ released = <<>> /\ hist = <<>>
    /\ alive = (qs_kind = "binary_tree")
    /\ type = 3 /\ limit = DefaultLimit /\ separate_queries = FALSE
    /\ in_open = TRUE

\* the insert iteration without `us.insert(val)`: the reference set is not
\* kept up with the structure
DoInsert_nomirror ==
    /\ pc = "loop" /\ Tok.good /\ Tok.val >= 0 /\ insert
    /\ LET v == Tok.val
       IN /\ IF qs_kind = "binary_tree"
             THEN LET t == binary_tree_insert(root, heap, v)
                  IN /\ root' = t.root
                     /\ heap' = t.heap
                     /\ released' = [n \in 1..Len(t.heap) |-> 0]
             ELSE UNCHANGED <<root, heap, released>>
          /\ hist' = Append(hist, v)
          /\ calls' = [calls EXCEPT !.qs_insert = @ + 1]
          /\ out' = IF debug THEN WriteLine(out, OutLine("inserted", v))
                    ELSE out
    /\ pos' = pos + 1 /\ res' = <<>>
    /\ UNCHANGED <<alive, qs_kind, debug, validate, in_stream, in_ws, insert,
                   us, err, pc, exit_code, main_vars, in_open>>

\* an iteration that reads val >= 0 in INSERT mode
DoInsert ==
    /\ pc = "loop" /\ Tok.good /\ Tok.val >= 0 /\ insert
    /\ LET v == Tok.val
       IN /\ IF qs_kind = "binary_tree"
             THEN LET t == binary_tree_insert(root, heap, v)
                  IN /\ root' = t.root
                     /\ heap' = t.heap
                     /\ released' = [n \in 1..Len(t.heap) |-> 0]
             ELSE UNCHANGED <<root, heap, released>>
          /\ hist' = Append(hist, v)
          /\ us' = IF validate THEN us \cup {v} ELSE us
          /\ calls' = [calls EXCEPT !.qs_insert = @ + 1,
                                    !.us_insert = @ + BoolToInt(validate)]
          /\ out' = IF debug THEN WriteLine(out, OutLine("inserted", v))
                    ELSE out
    /\ pos' = pos + 1 /\ res' = <<>>
    /\ UNCHANGED <<alive, qs_kind, debug, validate, in_stream, in_ws, insert,
                   err, pc, exit_code, main_vars, in_open>>

\* the query iteration that writes the bare result line in debug mode too,
\* after the annotation
DoQuery_bare ==
    /\ pc = "loop" /\ Tok.good /\ Tok.val >= 0 /\ ~insert
    /\ \E c1 \in (IF validate THEN QsCount(Tok.val) ELSE {0}),
          c2 \in QsCount(Tok.val) :
        LET v == Tok.val
            r == (c1 # 0)
        IN /\ validate => ~Mismatch(r, us_count(us, v))
           /\ res' = IF validate THEN <<r>> ELSE <<>>
           /\ calls' = [calls EXCEPT
                           !.qs_count = @ + 1 + BoolToInt(validate),
                           !.us_count = @ + BoolToInt(validate)]
           /\ out' = IF debug
                     THEN WriteLine(WriteLine(out,
                              OutLine(IF c2 # 0 THEN "found" ELSE "not found", v)),
                              OutLine("result", c2))
                     ELSE WriteLine(out, OutLine("result", c2))
    /\ pos' = pos + 1
    /\ UNCHANGED <<tree_vars, qs_kind, debug, validate, in_stream, in_ws,
                   insert, us, err, pc, exit_code, main_vars, in_open>>

\* the query iteration that, once the validation has passed, writes no line
DoQuery_silent ==
    /\ pc = "loop" /\ Tok.good /\ Tok.val >= 0 /\ ~insert
    /\ \E c1 \in (IF validate THEN QsCount(Tok.val) ELSE {0}),
          c2 \in QsCount(Tok.val) :
        LET v == Tok.val
            r == (c1 # 0)
        IN /\ validate => ~Mismatch(r, us_count(us, v))
           /\ res' = IF validate THEN <<r>> ELSE <<>>
           /\ calls' = [calls EXCEPT
                           !.qs_count = @ + 1 + BoolToInt(validate),
                           !.us_count = @ + BoolToInt(validate)]
           /\ out' = IF validate THEN out
                     ELSE IF debug
                     THEN WriteLine(out,
                              OutLine(IF c2 # 0 THEN "found" ELSE "not found", v))
                     ELSE WriteLine(out, OutLine("result", c2))
    /\ pos' = pos + 1
    /\ UNCHANGED <<tree_vars, qs_kind, debug, validate, in_stream, in_ws,
                   insert, us, err, pc, exit_code, main_vars, in_open>>

\* the query iteration over a structure whose lookup inserts the value it
\* does not find
DoQuery_inserting ==
    /\ pc = "loop" /\ Tok.good /\ Tok.val >= 0 /\ ~insert
    /\ \E c1 \in (IF validate THEN QsCount(Tok.val) ELSE {0}),
          c2 \in QsCount(Tok.val) :
        LET v == Tok.val
            r == (c1 # 0)
        IN /\ validate => ~Mismatch(r, us_count(us, v))
           /\ res' = IF validate THEN <<r>> ELSE <<>>
           /\ calls' = [calls EXCEPT
                           !.qs_count = @ + 1 + BoolToInt(validate),
                           !.us_count = @ + BoolToInt(validate)]
           /\ out' = IF debug
                     THEN WriteLine(out,
                              OutLine(IF c2 # 0 THEN "found" ELSE "not found", v))
                     ELSE WriteLine(out, OutLine("result", c2))
           /\ IF qs_kind = "binary_tree"
              THEN LET t == binary_tree_insert(root, heap, v)
                   IN /\ root' = t.root
                      /\ heap' = t.heap
                      /\ released' = [n \in 1..Len(t.heap) |-> 0]
              ELSE UNCHANGED <<root, heap, released>>
    /\ pos' = pos + 1
    /\ UNCHANGED <<alive, hist, qs_kind, debug, validate, in_stream, in_ws,
                   insert, us, err, pc, exit_code, main_vars, in_open>>

\* an iteration that reads val >= 0 in QUERY mode and passes the validation
\* (or runs without it)
DoQuery ==
    /\ pc = "loop" /\ Tok.good /\ Tok.val >= 0 /\ ~insert
    /\ \E c1 \in (IF validate THEN QsCount(Tok.val) ELSE {0}),
          c2 \in QsCount(Tok.val) :
        LET v == Tok.val
            r == (c1 # 0)
        IN /\ validate => ~Mismatch(r, us_count(us, v))
           /\ res' = IF validate THEN <<r>> ELSE <<>>
           /\ calls' = [calls EXCEPT
                           !.qs_count = @ + 1 + BoolToInt(validate),
                           !.us_count = @ + BoolToInt(validate)]
           /\ out' = IF debug
                     THEN WriteLine(out,
                              OutLine(IF c2 # 0 THEN "found" ELSE "not found", v))
                     ELSE WriteLine(out, OutLine("result", c2))
    /\ pos' = pos + 1
    /\ UNCHANGED <<tree_vars, qs_kind, debug, validate, in_stream, in_ws,
                   insert, us, err, pc, exit_code, main_vars, in_open>>

\* an iteration that reads val >= 0 in QUERY mode and fails the validation:
\* the report, then exit(1)
DoQueryAbort ==
    /\ pc = "loop" /\ validate /\ Tok.good /\ Tok.val >= 0 /\ ~insert
    /\ \E c1 \in QsCount(Tok.val) :
        LET v == Tok.val
            r == (c1 # 0)
        IN /\ Mismatch(r, us_count(us, v))
           /\ res' = <<r>>
           /\ err' = WriteLine(err, ValidationReport(v, r))
    /\ calls' = [calls EXCEPT !.qs_count = @ + 1, !.us_count = @ + 1]
    /\ pc' = "done" /\ exit_code' = 1
    /\ UNCHANGED <<tree_vars, qs_kind, debug, validate, in_stream, in_ws, pos,
                   insert, us, out, main_vars, in_open>>

\* an iteration that reads val < 0
DoToggle ==
    /\ pc = "loop" /\ Tok.good /\ Tok.val < 0
    /\ insert' = Toggle(insert)
    /\ out' = IF debug
              THEN WriteLine(out, OutLine(IF insert THEN "Enter queries"
                                          ELSE "Enter values to add", 0))
              ELSE out
    /\ pos' = pos + 1 /\ res' = <<>>
    /\ UNCHANGED <<tree_vars, qs_kind, debug, validate, in_stream, in_ws, us,
                   calls, err, pc, exit_code, main_vars, in_open>>

\* an iteration whose extraction leaves the stream not good: run_ops returns
DoReturn ==
    /\ pc = "loop" /\ ~Tok.good
    /\ pc' = "returned" /\ res' = <<>>
    /\ UNCHANGED <<tree_vars, qs_kind, debug, validate, in_stream, in_ws, pos,
                   insert, us, calls, out, err, exit_code, main_vars, in_open>>

\* select_qs returns, which destroys the structure; the block of main that
\* holds `in` ends, which closes the stream; main returns 0
MainReturn ==
    /\ pc = "returned"
    /\ in_open' = FALSE
    /\ IF qs_kind = "binary_tree"
       THEN /\ released' = binary_tree_dtor(root, heap, released)
            /\ alive' = FALSE
       ELSE UNCHANGED <<released, alive>>
    /\ pc' = "done" /\ exit_code' = 0
    /\ UNCHANGED <<root, heap, hist, qs_kind, debug, validate, in_stream,
                   in_ws, pos, insert, us, res, calls, out, err, main_vars>>

Next ==
    \/ DoInsert
    \/ DoQuery
    \/ DoQueryAbort
    \/ DoToggle
    \/ DoReturn
    \/ MainReturn

Spec == Init /\ [][Next]_vars

\* the program is one sequential thread: a step that can be taken is taken
FairSpec == Spec /\ WF_vars(Next)

\* ------------------------- run_ops<binary_tree, false, false>, longer streams
ReplayTokens == {IntTok(v) : v \in (0..MaxTok) \cup {-1}}

ReplayStreams == UNION {[1..n -> ReplayTokens] : n \in 0..MaxReplayLen}

\* the stream `5 3 8 -1 3 99 -1`
ExampleStream ==
    <<IntTok(5), IntTok(3), IntTok(8), IntTok(-1), IntTok(3), IntTok(99),
      IntTok(-1)>>

ReplayInit ==
    /\ qs_kind = "binary_tree" /\ debug = FALSE /\ validate = FALSE
    /\ in_stream \in ReplayStreams \cup {ExampleStream}
    /\ in_ws \in BOOLEAN /\ pos = 1
    /\ us = {} /\ insert = TRUE /\ res = <<>> /\ calls = NoCalls
    /\ out = <<>> /\ err = <<>> /\ pc = "loop" /\ exit_code = -1
    /\ root = 0 /\ heap = <<>> /\ released = <<>> /\ hist = <<>>
    /\ alive = TRUE
    /\ type = 3 /\ limit = DefaultLimit /\ separate_queries = FALSE
    /\ in_open = TRUE

ReplayNext ==
    \/ DoInsert
    \/ DoQuery
    \/ DoToggle
    \/ DoReturn
    \/ MainReturn

ReplaySpec == ReplayInit /\ [][ReplayNext]_vars

\* -------------------------------------------------------------- select_qs
\* the positions of the program inside and after run_ops
RunPcs == {"loop", "returned", "done"}

\* the values of the option -t (std::stoi: any int) and of the option -l
Types == (-2)..MaxType
Limits == {0, 1, SmallLimit - 1, SmallLimit, SmallLimit + 1, DefaultLimit}

\* the heuristics with the hint -s looked at before the limit
EffectiveType_sepfirst(t, lim, sep) ==
    IF t = 0
    THEN IF sep THEN 4
         ELSE IF lim > 0 /\ lim < SmallLimit THEN 5
         ELSE 6
    ELSE t

\* `if (type == 0) { ... }`: the type select_qs goes on with
EffectiveType(t, lim, sep) ==
    IF t = 0
    THEN IF lim > 0 /\ lim < SmallLimit THEN 5
         ELSE IF sep THEN 4
         ELSE 6
    ELSE t

\* an if-chain whose last branch tests for the types 5 and 6 and that
\* instantiates nothing for any other type
Variant_strict(t) ==
    IF t = 1 THEN "std::set"
    ELSE IF t = 2 THEN "std::unordered_set"
    ELSE IF t = 3 THEN "binary_tree"
    ELSE IF t = 4 THEN "vs"
    ELSE IF t = 5 \/ t = 6 THEN "bv"
    ELSE "none"

\* the if-chain `if (type == 1) ... else if (type == 4) ... else ...`: the
\* structure that is instantiated
Variant(t) ==
    IF t = 1 THEN "std::set"
    ELSE IF t = 2 THEN "std::unordered_set"
    ELSE IF t = 3 THEN "binary_tree"
    ELSE IF t = 4 THEN "vs"
    ELSE "bv"

\* the text select_qs writes to std::cerr in debug mode
UsingText(kind) ==
    IF kind = "std::set" THEN "Using std::set"
    ELSE IF kind = "std::unordered_set" THEN "Using std::unordered_set"
    ELSE IF kind = "binary_tree" THEN "Using unbalanced binary tree"
    ELSE IF kind = "vs" THEN "Using sorted vector"
    ELSE "Using bit vector"

\* main's debug line "type = ..., limit = ..., separate queries = ..."
MainLine(t, lim, sep) ==
    [text |-> "type, limit, separate queries", val |-> t, should |-> 0,
     limit |-> lim, separate_queries |-> sep]

\* main has parsed its arguments, written its debug line and opened the
\* stream, which holds no token
SelectInit ==
    /\ type \in Types /\ limit \in Limits /\ separate_queries \in BOOLEAN
    /\ debug \in BOOLEAN /\ validate = FALSE
    /\ qs_kind = "none" /\ pc = "select" /\ exit_code = -1
    /\ err = IF debug THEN <<MainLine(type, limit, separate_queries)>> ELSE <<>>
    /\ in_stream = <<>> /\ in_ws = FALSE /\ pos = 1 /\ in_open = TRUE
    /\ us = {} /\ insert = TRUE /\ res = <<>> /\ calls = NoCalls /\ out = <<>>
    /\ root = 0 /\ heap = <<>> /\ released = <<>> /\ hist = <<>>
    /\ alive = FALSE

\* select_qs up to the loop of run_ops: the choice of the type, the debug
\* line, the structure's construction, and the entry of run_ops
SelectQs ==
    /\ pc = "select"
    /\ LET kind == Variant(EffectiveType(type, limit, separate_queries))
       IN /\ qs_kind' = kind
          /\ err' = IF debug THEN WriteLine(err, ErrLine(UsingText(kind), 0, 0))
                    ELSE err
          /\ alive' = (kind = "binary_tree")
    /\ out' = IF debug THEN WriteLine(out, OutLine("Enter values to add", 0))
              ELSE out
    /\ us' = {} /\ insert' = TRUE
    /\ pc' = "loop"
    /\ UNCHANGED <<root, heap, released, hist, debug, validate, in_stream,
                   in_ws, pos, res, calls, exit_code, main_vars, in_open>>

SelectNext ==
    \/ SelectQs
    \/ DoReturn
    \/ MainReturn

SelectSpec == SelectInit /\ [][SelectNext]_vars

\* ---------------------------------------------------- claims on select_qs
\* C13: for a type other than 0 the structure is chosen by the type alone,
\* whatever limit and separate_queries are: 1 the ordered set, 2 the hashed
\* set, 3 the binary tree, 4 the sorted vector, and any other type (5, 6, and
\* every value outside 0..6) the bit vector.
C13_ExplicitType ==
    (pc \in RunPcs /\ type # 0) =>
        qs_kind = CASE type = 1 -> "std::set"
                    [] type = 2 -> "std::unordered_set"
                    [] type = 3 -> "binary_tree"
                    [] type = 4 -> "vs"
                    [] OTHER -> "bv"

\* a negative type, with a small limit and the hint -s, chose the bit vector
C13_Witness ==
    /\ pc = "done" /\ type = -1 /\ limit = 1 /\ separate_queries
    /\ qs_kind = "bv"

\* C19: for type 0 a limit with 0 < limit < 10,000,000 chooses the bit vector
\* whatever separate_queries is; otherwise separate_queries chooses the sorted
\* vector; otherwise the bit vector is chosen; the ordered set, the hashed set
\* and the binary tree are never chosen.
C19_Heuristics ==
    (pc \in RunPcs /\ type = 0) =>
        /\ qs_kind = IF 0 < limit /\ limit < 10000000 THEN "bv"
                     ELSE IF separate_queries THEN "vs"
                     ELSE "bv"
        /\ qs_kind \notin {"std::set", "std::unordered_set", "binary_tree"}

\* type 0 with the limit 10,000,000, which is not small, and the hint -s chose
\* the sorted vector
C19_Witness ==
    /\ pc = "done" /\ type = 0 /\ limit = 10000000 /\ separate_queries
    /\ qs_kind = "vs"

\* ------------------------------------------------------ claims on run_ops
Range(s) == {s[i] : i \in 1..Len(s)}

\* the tokens the loop has acted on so far
Acted == SubSeq(in_stream, 1, pos - 1)

RECURSIVE IntPrefixLen(_, _)
\* the number of int tokens of s from index i up to the first token that is
\* no int
IntPrefixLen(s, i) ==
    IF i > Len(s) \/ ~s[i].is_int THEN 0 ELSE 1 + IntPrefixLen(s, i + 1)

\* the int tokens that precede the end of the stream or the first other token
IntPrefix(s) == SubSeq(s, 1, IntPrefixLen(s, 1))

RECURSIVE Replay(_, _, _, _, _)
\* the result lines the stream of int tokens s asks for, read off the stream
\* alone: a negative token switches the mode, a non-negative token in INSERT
\* mode is remembered, a non-negative token in QUERY mode asks for the line 1
\* if it was remembered and for 0 if not
Replay(s, i, inserting, seen, lines) ==
    IF i > Len(s) THEN lines
    ELSE IF s[i].v < 0 THEN Replay(s, i + 1, ~inserting, seen, lines)
    ELSE IF inserting
         THEN Replay(s, i + 1, inserting, seen \cup {s[i].v}, lines)
         ELSE Replay(s, i + 1, inserting, seen,
                     Append(lines, OutLine("result",
                                           IF s[i].v \in seen THEN 1 ELSE 0)))

ExpectedLines(s) == Replay(s, 1, TRUE, {}, <<>>)

NegCount(s) == Cardinality({i \in 1..Len(s) : s[i].v < 0})

\* C1: run_ops without debug and validation over a binary_tree writes, for the
\* query tokens it has acted on and in their order, the line 1 when the value
\* occurred earlier as a non-negative token in INSERT mode and 0 when not, and
\* writes nothing else.
C1_ReplayOutput ==
    (qs_kind = "binary_tree" /\ ~debug /\ ~validate /\ pc # "api") =>
        out = ExpectedLines(Acted)

\* the finished run over `5 3 8 -1 3 99 -1`, with its two lines 1 and 0
C1_Witness ==
    /\ qs_kind = "binary_tree" /\ ~debug /\ ~validate
    /\ in_stream = ExampleStream /\ pc = "done" /\ exit_code = 0
    /\ Len(heap) = 3
    /\ out = <<OutLine("result", 1), OutLine("result", 0)>>

\* the state of an iteration that validates a query
ValidatedQuery == pc = "loop" /\ validate /\ Tok.good /\ Tok.val >= 0 /\ ~insert

\* C4: with validation, an iteration whose query result differs from the
\* reference set's membership reports the value with the expected boolean
\* (the reference set's membership) and ends the process with status 1,
\* writing no result line and acting on no later token; an iteration whose
\* result agrees goes on; nothing else ends the process with status 1.
C4_ValidationAbort ==
    /\ [][ValidatedQuery =>
            LET v == Tok.val
                expected == (v \in us)
            IN /\ Len(res') = 1
               /\ IF res'[1] # expected
                  THEN /\ pc' = "done" /\ exit_code' = 1
                       /\ err' = Append(err, ErrLine("Validation error", v,
                                                     BoolToInt(expected)))
                       /\ out' = out /\ pos' = pos
                       /\ UNCHANGED <<tree_vars, us, insert>>
                  ELSE /\ pc' = "loop" /\ exit_code' = exit_code
                       /\ err' = err /\ pos' = pos + 1
                       /\ Len(out') = Len(out) + 1]_vars
    /\ [][pc = "done" => FALSE]_vars
    /\ [][(exit_code' = 1 /\ exit_code # 1) => ValidatedQuery]_vars

\* a run that passed one query and then stopped on a value the reference set
\* holds and the structure denies
C4_Witness ==
    /\ validate /\ pc = "done" /\ exit_code = 1
    /\ Len(out) >= 1 + BoolToInt(debug)
    /\ res = <<FALSE>> /\ in_stream[pos].v \in us
    /\ err = <<ErrLine("Validation error", in_stream[pos].v, 1)>>

\* the state of an iteration that reads a negative token
NegativeToken == pc = "loop" /\ Tok.good /\ Tok.val < 0

\* C5: the mode is INSERT exactly when the number of negative tokens acted on
\* is even; a negative token flips the mode and does nothing else to the
\* structure, the reference set or the calls made on them, whatever its
\* magnitude; nothing but a negative token changes the mode.
C5_ModeToggling ==
    /\ [](pc # "api" => (insert <=> NegCount(Acted) % 2 = 0))
    /\ [][NegativeToken =>
            /\ insert' = ~insert /\ pos' = pos + 1
            /\ out' = IF debug
                      THEN Append(out, OutLine(IF insert THEN "Enter queries"
                                               ELSE "Enter values to add", 0))
                      ELSE out
            /\ UNCHANGED <<tree_vars, us, calls, err, pc, exit_code>>]_vars
    /\ [][insert' # insert => NegativeToken]_vars

\* four negative tokens in a row, of both magnitudes, were acted on
C5_Witness ==
    /\ pc = "loop" /\ pos = 5 /\ insert
    /\ Acted = <<IntTok(-1), IntTok(-2), IntTok(-2), IntTok(-1)>>

\* C6: at a normal end every int token before the end of the stream or the
\* first token that is no int has been acted on, so that without debug and
\* validation the output has one line for each non-negative token read in
\* QUERY mode.
C6_EveryTokenActed ==
    (pc = "done" /\ exit_code = 0) =>
        /\ Acted = IntPrefix(in_stream)
        /\ (~debug /\ ~validate) =>
               Len(out) = Len(ExpectedLines(IntPrefix(in_stream)))

\* the extraction at pos met the end of the stream or a token that is no int
StreamEnded ==
    \/ pos > Len(in_stream)
    \/ ~in_stream[pos].is_int
    \/ pos = Len(in_stream) /\ ~in_ws

\* C10: every run ends; it ends with status 0 only after an extraction that
\* met the end of the stream or a token that is no int; no token at or after
\* the first token that is no int is acted on; the only other end is status 1
\* after a validation report.
C10_Termination ==
    /\ <>(pc = "done")
    /\ []((pc = "returned" \/ (pc = "done" /\ exit_code = 0)) => StreamEnded)
    /\ [](pc # "api" => pos - 1 <= IntPrefixLen(in_stream, 1))
    /\ [](pc = "done" =>
            \/ exit_code = 0
            \/ /\ exit_code = 1 /\ validate /\ Len(err) = 1
               /\ err[1].text = "Validation error")
    /\ [](pc # "done" => exit_code = -1)

\* a run that ended normally at a token that is no int, with tokens after it
C10_Witness ==
    /\ pc = "done" /\ exit_code = 0 /\ pos = 3 /\ Len(in_stream) = 4
    /\ ~in_stream[3].is_int /\ in_stream[4].is_int

RECURSIVE DebugReplay(_, _, _, _, _)
\* the narrative the stream of int tokens s asks for in debug mode, read off
\* the stream alone
DebugReplay(s, i, inserting, seen, lines) ==
    IF i > Len(s) THEN lines
    ELSE IF s[i].v < 0
         THEN DebugReplay(s, i + 1, ~inserting, seen,
                  Append(lines, OutLine(IF inserting THEN "Enter queries"
                                        ELSE "Enter values to add", 0)))
    ELSE IF inserting
         THEN DebugReplay(s, i + 1, inserting, seen \cup {s[i].v},
                  Append(lines, OutLine("inserted", s[i].v)))
         ELSE DebugReplay(s, i + 1, inserting, seen,
                  Append(lines, OutLine(IF s[i].v \in seen THEN "found"
                                        ELSE "not found", s[i].v)))

DebugLines(s) ==
    DebugReplay(s, 1, TRUE, {}, <<OutLine("Enter values to add", 0)>>)

\* the lines of o that annotate a query
Annotations(o) ==
    SelectSeq(o, LAMBDA l : l.text \in {"found", "not found"})

\* the lines of o that tell of the run: prompts, acknowledgements, annotations
Narrative(o) ==
    SelectSeq(o, LAMBDA l : l.text \in {"found", "not found", "inserted",
                                        "Enter queries", "Enter values to add"})

\* C11 as stated: in debug mode the prompts, insert acknowledgements and
\* query annotations are on the diagnostic stream, one annotation for every
\* query token acted on, and none of them is on the primary output.
C11_DebugToDiagnostic ==
    (debug /\ pc \in RunPcs) =>
        /\ Narrative(out) = <<>>
        /\ Len(Annotations(err)) = Len(ExpectedLines(Acted))

\* C11 as amended: in debug mode run_ops writes its narrative to the primary
\* output: over the tree, std::cout holds exactly the prompts, insert
\* acknowledgements and found / not found annotations of the tokens acted on,
\* in order; over any structure it holds one annotation for every query token
\* acted on and no bare 0/1 result line; the diagnostic stream receives from
\* run_ops nothing but the validation report.
C11_DebugToPrimary ==
    (debug /\ pc \in RunPcs) =>
        /\ \A i \in 1..Len(out) : out[i].text # "result"
        /\ Len(Annotations(out)) = Len(ExpectedLines(Acted))
        /\ \A i \in 1..Len(err) : err[i].text = "Validation error"
        /\ qs_kind = "binary_tree" => (out = DebugLines(Acted) /\ err = <<>>)

\* a debug run over the tree that annotated one query with found and one with
\* not found
C11_Witness ==
    /\ debug /\ qs_kind = "binary_tree" /\ pc = "done"
    /\ \E i, j \in 1..Len(out) :
        out[i].text = "found" /\ out[j].text = "not found"

RECURSIVE ReplaySeen(_, _, _, _)
\* the non-negative tokens of s read in INSERT mode
ReplaySeen(s, i, inserting, seen) ==
    IF i > Len(s) THEN seen
    ELSE IF s[i].v < 0 THEN ReplaySeen(s, i + 1, ~inserting, seen)
    ELSE IF inserting THEN ReplaySeen(s, i + 1, inserting, seen \cup {s[i].v})
    ELSE ReplaySeen(s, i + 1, inserting, seen)

InsertedBy(s) == ReplaySeen(s, 1, TRUE, {})

\* C12: with validation the reference set holds, after every token acted on,
\* exactly the values insert was called with on the structure, which are the
\* non-negative tokens read in INSERT mode; without validation the reference
\* set is never inserted into and never consulted.
C12_ShadowSet ==
    pc \in RunPcs =>
        /\ Range(hist) = InsertedBy(Acted)
        /\ calls.qs_insert = Len(hist)
        /\ validate => (us = Range(hist) /\ calls.us_insert = calls.qs_insert)
        /\ ~validate =>
              (us = {} /\ calls.us_insert = 0 /\ calls.us_count = 0)

\* a validated run that mirrored two values and then consulted the reference
\* set
C12_Witness ==
    /\ validate /\ pc \in RunPcs /\ Cardinality(us) = 2 /\ Len(hist) = 2
    /\ calls.us_count >= 1

\* C14: at every end of the program, the normal one at the end of the stream
\* and the early one after a validation mismatch, the input stream opened at
\* startup has been closed.
C14_StreamReleased == pc = "done" => ~in_open

\* C15: run side by side over any stream, the binary tree and the reference
\* set answer every query alike: a validated run over the tree keeps the two
\* in agreement on every value, passes every validated query with the
\* reference set's answer, never ends with the validation report, and ends
\* normally.
C15_TreeRefinesSet ==
    /\ []((qs_kind = "binary_tree" /\ validate /\ pc \in RunPcs) =>
            /\ exit_code # 1 /\ err = <<>>
            /\ alive => \A v \in ProbeVals :
                   binary_tree_count(root, heap, v) = us_count(us, v))
    /\ [][(qs_kind = "binary_tree" /\ ValidatedQuery) =>
            /\ pc' = "loop" /\ pos' = pos + 1
            /\ res' = <<Tok.val \in us>>]_vars
    /\ (qs_kind = "binary_tree" /\ validate /\ pc = "loop") ~>
           (pc = "done" /\ exit_code = 0)

\* a validated run over the tree that ended normally after two queries, one
\* answered 1 and one answered 0
C15_Witness ==
    /\ qs_kind = "binary_tree" /\ validate /\ ~debug
    /\ pc = "done" /\ exit_code = 0 /\ calls.us_count = 2
    /\ out = <<OutLine("result", 1), OutLine("result", 0)>>

\* the primary output the iteration at hand leaves when run without validation
UnvalidatedOut ==
    IF pc = "loop" /\ Tok.good /\ Tok.val >= 0 /\ ~insert
    THEN {Append(out, OutLine("result", c)) : c \in QsCount(Tok.val)}
    ELSE {out}

\* C16: validation does not change the primary output: without debug, every
\* step of a run that does not end in the validation report writes to the
\* primary output what the same step writes without validation (one 0/1 line
\* of the structure's answer for a query, nothing otherwise) and moves on in
\* the stream alike, so that over the tree the output is the same function of
\* the tokens acted on with validation and without.
C16_ValidationTransparent ==
    /\ [][(~debug /\ pc \in RunPcs /\ exit_code' # 1) =>
            /\ out' \in UnvalidatedOut
            /\ pos' = IF pc = "loop" /\ Tok.good THEN pos + 1 ELSE pos]_vars
    /\ []((~debug /\ pc \in RunPcs /\ qs_kind = "binary_tree") =>
            out = ExpectedLines(Acted))
    /\ []((~debug /\ pc \in RunPcs) =>
            /\ Len(out) = Len(ExpectedLines(Acted))
            /\ \A i \in 1..Len(out) :
                   out[i].text = "result" /\ out[i].val \in {0, 1})

\* a validated run without debug over the tree that ended normally after it
\* wrote the lines of two queries
C16_Witness ==
    /\ validate /\ ~debug /\ qs_kind = "binary_tree"
    /\ pc = "done" /\ exit_code = 0
    /\ Len(out) = 2 /\ out[2] = OutLine("result", 1) /\ calls.qs_count = 4

\* C17: queries have no effect on the structure: a step of run_ops taken in
\* QUERY mode allocates no node, changes no node's value or child links,
\* releases nothing, calls insert neither on the structure nor on the
\* reference set and leaves the reference set as it is, so the answer of
\* count to every value is the same after the step as before it.
C17_QueryNoEffect ==
    [][(pc = "loop" /\ ~insert) =>
        /\ UNCHANGED <<root, heap, released, alive, hist, us>>
        /\ calls'.qs_insert = calls.qs_insert
        /\ calls'.us_insert = calls.us_insert
        /\ \A v \in ProbeVals :
               /\ binary_tree_count(root', heap', v) =
                      binary_tree_count(root, heap, v)
               /\ us_count(us', v) = us_count(us, v)]_vars

\* after the insert of 1, the query of the absent 0 answered 0 and the later
\* query of 1 still answered 1, the tree still holding its one node
C17_Witness ==
    /\ qs_kind = "binary_tree" /\ ~debug /\ pc = "loop" /\ ~insert
    /\ Len(heap) = 1 /\ calls.qs_count >= 2
    /\ out = <<OutLine("result", 0), OutLine("result", 1)>>

\* ------------------------------------------------------- claims on the tree

RECURSIVE Subtree(_, _)
\* the addresses of the nodes of the subtree rooted at address n
Subtree(h, n) ==
    IF n = 0 THEN {}
    ELSE {n} \cup Subtree(h, h[n].left) \cup Subtree(h, h[n].right)

\* C2: on a tree built by insert calls alone, count(v) is true exactly when v
\* was the argument of one of the calls (so it is false for every v on a tree
\* that received no insert).
C2_CountIffInserted ==
    (qs_kind = "binary_tree" /\ alive) =>
        \A v \in ProbeVals :
            (binary_tree_count(root, heap, v) = 1) <=> (v \in Range(hist))

\* a tree with a left and a right branch, answering both true and false
C2_Witness ==
    /\ pc = "api" /\ alive /\ Len(heap) >= 3
    /\ heap[root].left # 0 /\ heap[root].right # 0
    /\ heap[heap[root].left].left # 0
    /\ binary_tree_count(root, heap, heap[heap[heap[root].left].left].val) = 1
    /\ \E v \in ProbeVals : binary_tree_count(root, heap, v) = 0

\* C3: in every reachable tree, every value of a node's left subtree is
\* strictly less than the node's value, every value of its right subtree is
\* strictly greater, and no value is stored in two nodes.
C3_OrderingInvariant ==
    (qs_kind = "binary_tree" /\ alive) =>
        /\ \A n \in 1..Len(heap) :
            /\ \A m \in Subtree(heap, heap[n].left) : heap[m].val < heap[n].val
            /\ \A m \in Subtree(heap, heap[n].right) : heap[m].val > heap[n].val
        /\ \A n, m \in 1..Len(heap) : n # m => heap[n].val # heap[m].val

\* a tree of three nodes, one of them with both children, built by a sequence
\* of inserts that repeats a value
C3_Witness ==
    /\ pc = "api" /\ alive /\ Len(heap) = 3 /\ Len(hist) = 4
    /\ \E n \in 1..Len(heap) : heap[n].left # 0 /\ heap[n].right # 0

\* C7: inserting a value that was inserted before allocates no node and
\* leaves every node's value and links, hence the shape and every count, as
\* they were.
C7_InsertIdempotent ==
    [][(/\ qs_kind = "binary_tree" /\ alive
        /\ Len(hist') = Len(hist) + 1
        /\ hist'[Len(hist')] \in Range(hist))
       => (root' = root /\ heap' = heap)]_vars

\* a tree of two or more nodes whose last insert repeated an earlier value
C7_Witness ==
    /\ pc = "api" /\ alive /\ Len(heap) >= 2 /\ Len(hist) >= 3
    /\ hist[Len(hist)] \in Range(SubSeq(hist, 1, Len(hist) - 1))
    /\ hist[Len(hist)] # heap[root].val

RECURSIVE PermsOf(_)
\* every ordering of the index set I
PermsOf(I) ==
    IF I = {} THEN {<<>>}
    ELSE UNION {{<<i>> \o p : p \in PermsOf(I \ {i})} : i \in I}

\* every permutation of the sequence s
PermutationsOf(s) ==
    {[k \in 1..Len(s) |-> s[p[k]]] : p \in PermsOf(1..Len(s))}

RECURSIVE Build(_, _)
\* the tree after inserting the values of s, in order, into the tree t
Build(t, s) ==
    IF s = <<>> THEN t
    ELSE Build(binary_tree_insert(t.root, t.heap, Head(s)), Tail(s))

EmptyTree == [root |-> 0, heap |-> <<>>]

\* C8: the tree built from any permutation of the inserted sequence gives the
\* same count(v) as the tree built from the sequence itself, for every v.
C8_OrderIndependent ==
    (qs_kind = "binary_tree" /\ alive) =>
        \A s \in PermutationsOf(hist) :
            LET t == Build(EmptyTree, s)
            IN \A v \in ProbeVals :
                binary_tree_count(t.root, t.heap, v)
                    = binary_tree_count(root, heap, v)

\* three distinct values inserted, and a permutation of them that builds a
\* tree of another shape
C8_Witness ==
    /\ pc = "api" /\ alive /\ Len(heap) >= 3
    /\ \E s \in PermutationsOf(hist) :
        LET t == Build(EmptyTree, s)
        IN t.heap # heap /\ t.heap[t.root].val # heap[root].val

\* C9: inserts that carry N distinct values allocate exactly N nodes, nothing
\* is released while the tree lives, and the tree's destruction releases each
\* of the N nodes exactly once (nothing for an empty tree).
C9_Ownership ==
    (qs_kind = "binary_tree" /\ pc = "api") =>
        /\ Len(heap) = Cardinality(Range(hist))
        /\ Len(released) = Len(heap)
        /\ alive => \A n \in 1..Len(heap) : released[n] = 0
        /\ ~alive => \A n \in 1..Len(heap) : released[n] = 1

\* a destroyed tree of three or more nodes with both kinds of children
C9_Witness ==
    /\ pc = "api" /\ ~alive /\ Len(heap) >= 3 /\ Len(hist) > Len(heap)
    /\ \E n \in 1..Len(heap) : heap[n].left # 0
    /\ \E n \in 1..Len(heap) : heap[n].right # 0
    /\ \A n \in 1..Len(heap) : released[n] = 1

RECURSIVE LastOnPath(_, _, _)
\* the last node of the search path of value from node n: the walk goes right
\* of a node with a smaller value and left of one with a greater value, and
\* ends at the node whose child on that side is missing (or that holds value)
LastOnPath(h, n, value) ==
    IF value = h[n].val THEN n
    ELSE IF value > h[n].val
         THEN IF h[n].right = 0 THEN n ELSE LastOnPath(h, h[n].right, value)
         ELSE IF h[n].left = 0 THEN n ELSE LastOnPath(h, h[n].left, value)

\* the nodes of h that have n as a child
Parents(h, n) == {m \in 1..Len(h) : h[m].left = n \/ h[m].right = n}

\* C18: insert into an empty tree makes the value the root; insert of a value
\* not yet present into a non-empty tree keeps the root and adds exactly one
\* node, a leaf, as the right child of the last node on the search path when
\* the value is greater than that node's value and as its left child when
\* not, in a slot that was empty; every node that existed keeps its value,
\* its parent and its children.
C18_InsertPlacement ==
    [][(pc = "api" /\ hist' # hist /\ hist'[Len(hist')] \notin Range(hist)) =>
        LET v == hist'[Len(hist')]
            new == Len(heap) + 1
        IN IF root = 0
           THEN /\ heap = <<>> /\ root' = new /\ heap' = <<node(v)>>
           ELSE LET p == LastOnPath(heap, root, v)
                IN /\ root' = root
                   /\ Len(heap') = Len(heap) + 1
                   /\ heap'[new] = node(v)
                   /\ heap'[p].val = heap[p].val
                   /\ IF v > heap[p].val
                      THEN /\ heap[p].right = 0 /\ heap'[p].right = new
                           /\ heap'[p].left = heap[p].left
                      ELSE /\ heap[p].left = 0 /\ heap'[p].left = new
                           /\ heap'[p].right = heap[p].right
                   /\ \A n \in 1..Len(heap) :
                          /\ n # p => heap'[n] = heap[n]
                          /\ Parents(heap', n) = Parents(heap, n)
                   /\ Parents(heap', new) = {p}]_vars

\* 1, -1, 2, 0 inserted: the root has both children, and 0 hangs as a leaf to
\* the right of -1, two links below the root
C18_Witness ==
    /\ pc = "api" /\ alive /\ hist = <<1, -1, 2, 0>>
    /\ root = 1 /\ heap[1] = [val |-> 1, left |-> 2, right |-> 3]
    /\ heap[2] = [val |-> -1, left |-> 0, right |-> 4]
    /\ heap[3] = node(2) /\ heap[4] = node(0)

Max(a, b) == IF a >= b THEN a ELSE b

RECURSIVE Depth(_, _)
\* the number of nodes on the longest path from node n down to a leaf
Depth(h, n) ==
    IF n = 0 THEN 0
    ELSE 1 + Max(Depth(h, h[n].left), Depth(h, h[n].right))

StrictlyIncreasing(s) == \A i \in 1..(Len(s) - 1) : s[i] < s[i + 1]
StrictlyDecreasing(s) == \A i \in 1..(Len(s) - 1) : s[i] > s[i + 1]

\* C20: the tree never rebalances: after n distinct values inserted in
\* strictly increasing order into an empty tree the tree is a chain of n
\* nodes in which no node has a left child and whose depth is n; after a
\* strictly decreasing order it is the mirror image, a chain without right
\* children of depth n.
C20_NoRebalancing ==
    (pc = "api" /\ alive) =>
        /\ StrictlyIncreasing(hist) =>
              /\ Len(heap) = Len(hist)
              /\ \A n \in 1..Len(heap) : heap[n].left = 0
              /\ Depth(heap, root) = Len(hist)
        /\ StrictlyDecreasing(hist) =>
              /\ Len(heap) = Len(hist)
              /\ \A n \in 1..Len(heap) : heap[n].right = 0
              /\ Depth(heap, root) = Len(hist)

\* -1, 0, 1, 2 inserted in this order: a right-only chain of depth 4
C20_Witness ==
    /\ pc = "api" /\ alive /\ hist = <<-1, 0, 1, 2>>
    /\ Depth(heap, root) = 4 /\ heap[root].val = -1
    /\ heap[4].val = 2

====
